---- MODULE Spec2Model ----
(***************************************************************************)
(* Model of examples/DetectAndTrack.cpp: the batch driver (main) and the   *)
(* per-sequence pipeline (detectAndTrack).  The file system, the console,  *)
(* the tracker instances and the output stream are state; the detector and *)
(* the tracker are external and answer nondeterministically.               *)
(***************************************************************************)
EXTENDS Integers, Sequences, FiniteSets, TLC

\* ------------------------------------------------------------------ bounds
MaxFrames == 2      \* at most this many image files under data/
MaxBatch == 2       \* at most this many lines in the sequences file
MaxRuns == 2        \* at most this many runs of the harness on one file system

TicksPerMs == 2     \* clock ticks per millisecond (the clock scaled down)

\* ------------------------------------------------------------------ text
Digits == <<"0", "1", "2", "3", "4", "5", "6", "7", "8", "9">>

DigitValue(c) == CHOOSE d \in 0..9 : Digits[d + 1] = c

RECURSIVE FormatNat(_)
FormatNat(n) ==
    IF n < 10 THEN <<Digits[n + 1]>>
    ELSE FormatNat(n \div 10) \o <<Digits[(n % 10) + 1]>>

\* operator<< on an integer
FormatInt(n) == IF n < 0 THEN <<"-">> \o FormatNat(0 - n) ELSE FormatNat(n)

\* ------------------------------------------------------------ file system
SequencePaths == {"seq01", "seq02"}

\* A directory that does not exist, and a file that does not exist.
NoDir == [exists |-> FALSE, files |-> {}]
\* A text file is kept as the sequence of its lines, each ended by its newline.
NoFile == [exists |-> FALSE, text |-> <<>>]

\* File names of frames: digit strings "2", "10", "11", ... whose order as
\* strings differs from their order as numbers.
FrameNumber(i) == IF i = 1 THEN 2 ELSE 8 + i
FileName(i) == FormatNat(FrameNumber(i))

\* An images directory: missing, or one holding the first k file names.
Dir(k) == [exists |-> TRUE, files |-> {FileName(i) : i \in 1..k}]
ImageDirs == {NoDir} \cup {Dir(k) : k \in 0..MaxFrames}

RECURSIVE TotalFiles(_, _)
TotalFiles(dirs, seqs) ==
    IF seqs = {} THEN 0
    ELSE LET s == CHOOSE x \in seqs : TRUE
         IN  Cardinality(dirs[s].files) + TotalFiles(dirs, seqs \ {s})

BatchLists == UNION {[1..n -> SequencePaths] : n \in 0..MaxBatch}

\* operator< of two paths in one directory: character by character.
RECURSIVE PathLess(_, _)
PathLess(a, b) ==
    IF a = <<>> THEN b # <<>>
    ELSE IF b = <<>> THEN FALSE
    ELSE IF Head(a) # Head(b) THEN DigitValue(Head(a)) < DigitValue(Head(b))
    ELSE PathLess(Tail(a), Tail(b))

RECURSIVE InsertPath(_, _)
InsertPath(sorted, p) ==
    IF sorted = <<>> THEN <<p>>
    ELSE IF PathLess(p, Head(sorted)) THEN <<p>> \o sorted
    ELSE <<Head(sorted)>> \o InsertPath(Tail(sorted), p)

\* A faulty variant of SortPaths: the listing is used in the order the directory gave it.
SortPathsSkipped(paths) == paths

RECURSIVE SortPaths(_)
SortPaths(paths) ==
    IF paths = <<>> THEN <<>>
    ELSE InsertPath(SortPaths(Tail(paths)), Head(paths))

\* The orders in which directory_iterator may list a directory.
Listings(dir) ==
    {l \in [1..Cardinality(dir.files) -> dir.files] :
        \A i, j \in 1..Cardinality(dir.files) : i # j => l[i] # l[j]}

\* ---------------------------------------------------------------- tracker
Car1 == [label |-> <<"c", "a", "r">>, ID |-> 1,
         x1 |-> 10, y1 |-> 20, width |-> 30, height |-> 40]
Car1Moved == [label |-> <<"c", "a", "r">>, ID |-> 1,
              x1 |-> 12, y1 |-> 20, width |-> 30, height |-> 40]
Person2 == [label |-> <<"p">>, ID |-> 2,
            x1 |-> -5, y1 |-> 0, width |-> 7, height |-> 105]

\* One call of imageTracker.detectAndTrack: the trackings it returns and the
\* clock ticks measured around it.
FrameOutcomes ==
    { [trackings |-> <<>>, ticks |-> 1],
      [trackings |-> <<Person2, Car1>>, ticks |-> 1],
      [trackings |-> <<Person2, Car1>>, ticks |-> 2],
      [trackings |-> <<Car1, Car1Moved>>, ticks |-> 2] }

\* Values an uninitialized duration may hold.
IndeterminateDurations == {0, 5}

\* ------------------------------------------------------------------ state
VARIABLES
    lines,                 \* the sequences file, one sequence path per line
    imagesDir,             \* data/<sequence>/images of every sequence
    resultsDir,            \* whether data/results/<sequence>/<modelType> exists
    files,                 \* data/results/<sequence>/<modelType>/track.txt
    writable,              \* whether that track.txt can be opened for writing
    run,                   \* how many times the harness has been started
    pc,                    \* where the running process is
    pos,                   \* lines of the sequences file read so far
    sequencePath,          \* the sequence detectAndTrack was called with
    cumulativeDuration,    \* main: ticks summed over the sequences
    cumulativeFrameCount,  \* main: frames summed over the sequences
    console,               \* lines printed on std::cout by this run
    durationFrameCount,    \* the pair detectAndTrack returned last
    outputStream,          \* detectAndTrack: the std::ofstream
    trackers,              \* tracker instances of this run: the frames each was fed
    imageTracker,          \* detectAndTrack: the instance imageTracker owns
    imagePaths,            \* detectAndTrack: the sorted image paths
    imageIt,               \* detectAndTrack: position in imagePaths
    dtCumulativeDuration,  \* detectAndTrack: ticks summed over the frames
    frameCount,            \* detectAndTrack: frames processed
    returned,              \* history: the pairs returned to main in this run
    pass                   \* history: per artifact, the frames of the pass that
                           \* opened it with the trackings returned for each,
                           \* and whether that pass closed the artifact

fsVars == <<lines, imagesDir, resultsDir, files, writable>>
mainVars == <<run, pos, cumulativeDuration, cumulativeFrameCount, console, returned>>
localVars == <<outputStream, imageTracker, imagePaths, imageIt,
               dtCumulativeDuration, frameCount>>
vars == <<lines, imagesDir, resultsDir, files, writable, run, pc, pos, sequencePath,
          cumulativeDuration, cumulativeFrameCount, console, durationFrameCount,
          outputStream, trackers, imageTracker, imagePaths, imageIt,
          dtCumulativeDuration, frameCount, returned, pass>>

NoStream == [open |-> FALSE, path |-> "", written |-> <<>>]
NoResult == [duration |-> 0, frames |-> 0]
NoPass == [frames |-> <<>>, closed |-> FALSE]

\* ---------------------------------------------------------------- helpers
\* A faulty variant of InputDirOk: the images directory is not checked.
InputDirUnchecked(dir) == TRUE

\* boost::filesystem::is_directory(inputDirPath)
InputDirOk(dir) == dir.exists

\* A faulty variant of MayWrite: an existing artifact is overwritten.
MayWriteAlways(file) == TRUE

\* !boost::filesystem::exists(outputPath)
MayWrite(file) == ~file.exists

\* A faulty variant of NewTracker: one tracker instance serves every sequence.
SharedTracker(heap) == 1

\* std::make_shared<MCSORT>(): the instance the new ImageTracker owns.
NewTracker(heap) == Len(heap) + 1

\* A faulty variant of FormatRow: the x1 and y1 columns are swapped.
FormatRowSwapped(index, t) ==
    FormatInt(index) \o <<",">> \o t.label \o <<",">> \o FormatInt(t.ID) \o <<",">>
    \o FormatInt(t.y1) \o <<",">> \o FormatInt(t.x1) \o <<",">>
    \o FormatInt(t.width) \o <<",">> \o FormatInt(t.height) \o <<",">>
    \o <<"1", ",", "-", "1", ",", "-", "1", ",", "-", "1", "\n">>

\* One row of track.txt.
FormatRow(index, t) ==
    FormatInt(index) \o <<",">> \o t.label \o <<",">> \o FormatInt(t.ID) \o <<",">>
    \o FormatInt(t.x1) \o <<",">> \o FormatInt(t.y1) \o <<",">>
    \o FormatInt(t.width) \o <<",">> \o FormatInt(t.height) \o <<",">>
    \o <<"1", ",", "-", "1", ",", "-", "1", ",", "-", "1", "\n">>

FormatRows(index, trackings) ==
    [i \in 1..Len(trackings) |-> FormatRow(index, trackings[i])]

\* A faulty variant of NextFrameCount: the frame counter is never incremented.
FrameCountStuck(n) == n

\* The step of the frame loop on the frame counter.
NextFrameCount(n) == n + 1

\* duration_cast<std::chrono::milliseconds>(d).count(): truncation.
ToMs(ticks) == ticks \div TicksPerMs

\* A faulty variant of Throughput: an integer division, which traps on a zero divisor.
ThroughputIntegerDivision(frames, ms) ==
    LET n == frames * 1000
    IN  IF ms # 0 THEN [kind |-> "finite", num |-> n, den |-> ms]
        ELSE [kind |-> "SIGFPE", num |-> n, den |-> ms]

\* double(frames * 1000) / ms, a floating-point division.
Throughput(frames, ms) ==
    LET n == frames * 1000
    IN  IF ms # 0 THEN [kind |-> "finite", num |-> n, den |-> ms]
        ELSE IF n = 0 THEN [kind |-> "nan", num |-> n, den |-> ms]
        ELSE [kind |-> "inf", num |-> n, den |-> ms]

\* ------------------------------------------------------------------- Init
Init ==
    /\ lines \in BatchLists
    /\ imagesDir \in {dirs \in [SequencePaths -> ImageDirs] :
                        /\ TotalFiles(dirs, SequencePaths) <= MaxFrames
                        /\ \A q \in SequencePaths :
                              (\A i \in 1..Len(lines) : lines[i] # q) => dirs[q] = NoDir}
    /\ writable \in {w \in [SequencePaths -> BOOLEAN] :
                       \A q \in SequencePaths :
                          (\A i \in 1..Len(lines) : lines[i] # q) => w[q]}
    /\ resultsDir = [s \in SequencePaths |-> FALSE]
    /\ files = [s \in SequencePaths |-> NoFile]
    /\ run = 1
    /\ pc = "main"
    /\ pos = 0
    /\ sequencePath = ""
    /\ cumulativeDuration \in IndeterminateDurations
    /\ cumulativeFrameCount = 0
    /\ console = <<>>
    /\ durationFrameCount = NoResult
    /\ outputStream = NoStream
    /\ trackers = <<>>
    /\ imageTracker = 0
    /\ imagePaths = <<>>
    /\ imageIt = 1
    /\ dtCumulativeDuration = 0
    /\ frameCount = 0
    /\ returned = <<>>
    /\ pass = [s \in SequencePaths |-> NoPass]

\* ---------------------------------------------------------------- actions
\* main, lines 151-153: a line is read and detectAndTrack is called.
ReadSequence ==
    /\ pc = "main"
    /\ pos < Len(lines)
    /\ pos' = pos + 1
    /\ sequencePath' = lines[pos + 1]
    /\ console' = Append(console, [kind |-> "Sequence", seq |-> lines[pos + 1]])
    /\ pc' = "check"
    /\ UNCHANGED <<fsVars, run, cumulativeDuration, cumulativeFrameCount, returned,
                   durationFrameCount, localVars, trackers, pass>>

\* detectAndTrack, lines 34-38: no images directory, exit(EXIT_FAILURE).
InputDirMissing ==
    /\ pc = "check"
    /\ ~InputDirOk(imagesDir[sequencePath])
    /\ pc' = "exited"
    /\ UNCHANGED <<fsVars, mainVars, sequencePath, durationFrameCount, localVars,
                   trackers, pass>>

\* detectAndTrack, lines 41-51: the artifact exists, (0, 0) is returned.
OutputExists ==
    /\ pc = "check"
    /\ InputDirOk(imagesDir[sequencePath])
    /\ resultsDir' = [resultsDir EXCEPT ![sequencePath] = TRUE]
    /\ ~MayWrite(files[sequencePath])
    /\ durationFrameCount' = [duration |-> 0, frames |-> 0]
    /\ pc' = "returned"
    /\ UNCHANGED <<lines, imagesDir, files, writable, mainVars, sequencePath,
                   localVars, trackers, pass>>

\* detectAndTrack, lines 41-59: the artifact cannot be opened, exit(EXIT_FAILURE).
OpenFails ==
    /\ pc = "check"
    /\ InputDirOk(imagesDir[sequencePath])
    /\ resultsDir' = [resultsDir EXCEPT ![sequencePath] = TRUE]
    /\ MayWrite(files[sequencePath])
    /\ ~writable[sequencePath]
    /\ pc' = "exited"
    /\ UNCHANGED <<lines, imagesDir, files, writable, mainVars, sequencePath,
                   durationFrameCount, localVars, trackers, pass>>

\* detectAndTrack, lines 41-70: the artifact is opened (created empty, or
\* truncated), a tracker is made, the images are listed and sorted.
OpenOutput ==
    /\ pc = "check"
    /\ InputDirOk(imagesDir[sequencePath])
    /\ resultsDir' = [resultsDir EXCEPT ![sequencePath] = TRUE]
    /\ MayWrite(files[sequencePath])
    /\ writable[sequencePath]
    /\ files' = [files EXCEPT ![sequencePath] = [exists |-> TRUE, text |-> <<>>]]
    /\ outputStream' = [open |-> TRUE, path |-> sequencePath, written |-> <<>>]
    /\ LET id == NewTracker(trackers)
       IN  /\ imageTracker' = id
           /\ trackers' = IF id > Len(trackers) THEN Append(trackers, <<>>)
                          ELSE trackers
    /\ \E listing \in Listings(imagesDir[sequencePath]) :
           imagePaths' = SortPaths(listing)
    /\ imageIt' = 1
    /\ dtCumulativeDuration' = 0
    /\ frameCount' = 0
    /\ pass' = [pass EXCEPT ![sequencePath] = NoPass]
    /\ pc' = "loop"
    /\ UNCHANGED <<lines, imagesDir, writable, mainVars, sequencePath,
                   durationFrameCount>>

\* detectAndTrack, lines 71-92: one frame is detected, tracked and written.
ProcessFrame ==
    /\ pc = "loop"
    /\ imageIt <= Len(imagePaths)
    /\ \E outcome \in FrameOutcomes :
       LET trackings == outcome.trackings
           ticks == outcome.ticks
       IN
        /\ trackers' = [trackers EXCEPT ![imageTracker] =
              Append(@, [seq |-> sequencePath, image |-> imagePaths[imageIt]])]
        /\ dtCumulativeDuration' = dtCumulativeDuration + ticks
        /\ outputStream' = [outputStream EXCEPT !.written =
              @ \o FormatRows(frameCount, trackings)]
        /\ pass' = [pass EXCEPT ![sequencePath].frames =
              Append(@, [image |-> imagePaths[imageIt], trackings |-> trackings])]
    /\ frameCount' = NextFrameCount(frameCount)
    /\ imageIt' = imageIt + 1
    /\ UNCHANGED <<fsVars, mainVars, pc, sequencePath, durationFrameCount,
                   imageTracker, imagePaths>>

\* detectAndTrack, line 75: the detector or the tracker throws; nothing catches
\* it and the process terminates. The stream is neither flushed nor closed:
\* the file keeps what the stream happened to flush before, some of the rows.
TrackerThrows ==
    /\ pc = "loop"
    /\ imageIt <= Len(imagePaths)
    /\ \E n \in 0..Len(outputStream.written) :
          files' = [files EXCEPT ![sequencePath].text =
                       SubSeq(outputStream.written, 1, n)]
    /\ pc' = "terminated"
    /\ UNCHANGED <<lines, imagesDir, resultsDir, writable, mainVars, sequencePath,
                   durationFrameCount, localVars, trackers, pass>>

\* detectAndTrack, lines 93-94: after the last frame the stream is closed and
\* the totals of the sequence are returned.
CloseOutput ==
    /\ pc = "loop"
    /\ imageIt > Len(imagePaths)
    /\ files' = [files EXCEPT ![sequencePath].text = outputStream.written]
    /\ outputStream' = [outputStream EXCEPT !.open = FALSE]
    /\ durationFrameCount' = [duration |-> dtCumulativeDuration, frames |-> frameCount]
    /\ pass' = [pass EXCEPT ![sequencePath].closed = TRUE]
    /\ pc' = "returned"
    /\ UNCHANGED <<lines, imagesDir, resultsDir, writable, mainVars, sequencePath,
                   trackers, imageTracker, imagePaths, imageIt,
                   dtCumulativeDuration, frameCount>>

\* main, lines 154-158: the sequence is reported and folded into the totals;
\* the locals of the call that returned are gone.
Report ==
    /\ pc = "returned"
    /\ LET duration == ToMs(durationFrameCount.duration)
           fps == Throughput(durationFrameCount.frames, duration)
       IN  /\ console' = Append(console,
                 [kind |-> "Duration", seq |-> sequencePath, ms |-> duration,
                  frames |-> durationFrameCount.frames, fps |-> fps])
           /\ pc' = IF fps.kind = "SIGFPE" THEN "killed" ELSE "main"
    /\ cumulativeDuration' = cumulativeDuration + durationFrameCount.duration
    /\ cumulativeFrameCount' = cumulativeFrameCount + durationFrameCount.frames
    /\ returned' = Append(returned, durationFrameCount)
    /\ outputStream' = NoStream
    /\ imageTracker' = 0
    /\ imagePaths' = <<>>
    /\ imageIt' = 1
    /\ dtCumulativeDuration' = 0
    /\ frameCount' = 0
    /\ UNCHANGED <<fsVars, run, pos, sequencePath, durationFrameCount, trackers,
                   pass>>

\* main, lines 151, 160-168: the list is exhausted, the totals are reported.
Finish ==
    /\ pc = "main"
    /\ pos = Len(lines)
    /\ LET totalDuration == ToMs(cumulativeDuration)
           fps == Throughput(cumulativeFrameCount, totalDuration)
       IN  /\ console' = Append(console,
                 [kind |-> "Total", seq |-> "", ms |-> totalDuration,
                  frames |-> cumulativeFrameCount, fps |-> fps])
           /\ pc' = IF fps.kind = "SIGFPE" THEN "killed" ELSE "done"
    /\ UNCHANGED <<fsVars, run, pos, cumulativeDuration, cumulativeFrameCount,
                   returned, sequencePath, durationFrameCount, localVars, trackers,
                   pass>>

Ended == pc \in {"done", "exited", "terminated", "killed"}

\* The harness is started again on the file system the last run left behind
\* (main, lines 99-148).
Restart ==
    /\ Ended
    /\ run < MaxRuns
    /\ run' = run + 1
    /\ pc' = "main"
    /\ pos' = 0
    /\ sequencePath' = ""
    /\ cumulativeDuration' \in IndeterminateDurations
    /\ cumulativeFrameCount' = 0
    /\ console' = <<>>
    /\ durationFrameCount' = NoResult
    /\ outputStream' = NoStream
    /\ trackers' = <<>>
    /\ imageTracker' = 0
    /\ imagePaths' = <<>>
    /\ imageIt' = 1
    /\ dtCumulativeDuration' = 0
    /\ frameCount' = 0
    /\ returned' = <<>>
    /\ UNCHANGED <<fsVars, pass>>

Next ==
    \/ ReadSequence
    \/ InputDirMissing
    \/ OutputExists
    \/ OpenFails
    \/ OpenOutput
    \/ ProcessFrame
    \/ TrackerThrows
    \/ CloseOutput
    \/ Report
    \/ Finish
    \/ Restart

Spec == Init /\ [][Next]_vars

\* ------------------------------------------------- vocabulary of the claims
\* A reader of track.txt: integers, comma-separated fields, lines.
RECURSIVE ParseNat(_)
ParseNat(s) ==
    IF Len(s) = 1 THEN DigitValue(s[1])
    ELSE 10 * ParseNat(SubSeq(s, 1, Len(s) - 1)) + DigitValue(s[Len(s)])

ParseInt(s) ==
    IF s[1] = "-" THEN 0 - ParseNat(SubSeq(s, 2, Len(s))) ELSE ParseNat(s)

\* The pieces of a line between the separators (a trailing piece included).
RECURSIVE SplitFrom(_, _, _, _)
SplitFrom(text, sep, i, piece) ==
    IF i > Len(text) THEN <<piece>>
    ELSE IF text[i] = sep
         THEN <<piece>> \o SplitFrom(text, sep, i + 1, <<>>)
         ELSE SplitFrom(text, sep, i + 1, Append(piece, text[i]))

Split(text, sep) == SplitFrom(text, sep, 1, <<>>)

\* Lines gives the lines of a text file without their newline.
Lines(text) == [i \in 1..Len(text) |-> SubSeq(text[i], 1, Len(text[i]) - 1)]

RECURSIVE Flatten(_)
Flatten(ss) == IF ss = <<>> THEN <<>> ELSE Head(ss) \o Flatten(Tail(ss))

IsNat(s) == Len(s) > 0 /\ \A i \in 1..Len(s) : \E d \in 1..10 : Digits[d] = s[i]
IsInt(s) == IF Len(s) > 0 /\ s[1] = "-" THEN IsNat(SubSeq(s, 2, Len(s))) ELSE IsNat(s)

\* a is before b in lexicographic order (stated without the code's sort).
LexBefore(a, b) ==
    \E k \in 1..Len(b) :
        /\ \A i \in 1..(k - 1) : i <= Len(a) /\ a[i] = b[i]
        /\ \/ k = Len(a) + 1
           \/ k <= Len(a) /\ DigitValue(a[k]) < DigitValue(b[k])

\* 0-based position of an image in the sorted list of its images directory.
Position(s, image) ==
    Cardinality({f \in imagesDir[s].files : LexBefore(f, image)})

FrameTotal(s) == Cardinality(imagesDir[s].files)

\* The rows of an artifact, and the rows written to the open stream.
ArtifactRows(s) == Lines(files[s].text)
StreamRows == Lines(outputStream.written)

\* What the pass that opened the artifact of s was given: per row, the 0-based
\* index of the frame in the pass, its image, and the tracking returned.
Expected(s) ==
    Flatten([k \in 1..Len(pass[s].frames) |->
               [j \in 1..Len(pass[s].frames[k].trackings) |->
                  [frameIndex |-> k - 1,
                   image |-> pass[s].frames[k].image,
                   t |-> pass[s].frames[k].trackings[j]]]])

\* The frame index and the ID read from a row (-1: not a number).
KeyOf(row) ==
    LET f == Split(row, ",")
    IN  [frameIndex |-> IF IsInt(f[1]) THEN ParseInt(f[1]) ELSE -1,
         ID |-> IF Len(f) >= 3 /\ IsInt(f[3]) THEN ParseInt(f[3]) ELSE -1]

Keys(rows) == [i \in 1..Len(rows) |-> KeyOf(rows[i])]

\* The call that just returned was skipped (no stream was ever constructed),
\* or it ran the frame loop to its end.
SkipReturned == pc = "returned" /\ outputStream = NoStream
PassReturned == pc = "returned" /\ outputStream.path = sequencePath

RECURSIVE SumDuration(_)
SumDuration(rs) == IF rs = <<>> THEN 0 ELSE Head(rs).duration + SumDuration(Tail(rs))
RECURSIVE SumFrames(_)
SumFrames(rs) == IF rs = <<>> THEN 0 ELSE Head(rs).frames + SumFrames(Tail(rs))

\* ------------------------------------------------------------------ claims

C2_FrameIndexIsSortedPosition ==
    /\ \A s \in SequencePaths : pass[s].closed =>
          LET keys == Keys(ArtifactRows(s))
              exp == Expected(s)
          IN  /\ Len(pass[s].frames) = FrameTotal(s)
              /\ Len(keys) = Len(exp)
              /\ \A i \in 1..Len(keys) :
                    keys[i].frameIndex = Position(s, exp[i].image)
              /\ \A i, j \in 1..Len(keys) :
                    i < j => keys[i].frameIndex <= keys[j].frameIndex
              /\ \A k \in 1..Len(pass[s].frames) :
                    Cardinality({i \in 1..Len(keys) : keys[i].frameIndex = k - 1})
                       = Len(pass[s].frames[k].trackings)
    /\ PassReturned => durationFrameCount.frames = FrameTotal(sequencePath)

\* C2 witness: a completed artifact of a sequence with two or more frames, the
\* first of them without trackings, the second with rows.
C2_Witness ==
    \E s \in SequencePaths :
        /\ pass[s].closed
        /\ FrameTotal(s) >= 2
        /\ pass[s].frames[1].trackings = <<>>
        /\ pass[s].frames[2].trackings # <<>>
        /\ KeyOf(ArtifactRows(s)[1]).frameIndex = 1

\* The first seven fields of a row give back the frame index and the tracking,
\* and the last four are 1,-1,-1,-1.
RowRecovers(row, e) ==
    LET f == Split(row, ",")
    IN  /\ Len(f) = 11
        /\ IsInt(f[1]) /\ ParseInt(f[1]) = e.frameIndex
        /\ f[2] = e.t.label
        /\ IsInt(f[3]) /\ ParseInt(f[3]) = e.t.ID
        /\ IsInt(f[4]) /\ ParseInt(f[4]) = e.t.x1
        /\ IsInt(f[5]) /\ ParseInt(f[5]) = e.t.y1
        /\ IsInt(f[6]) /\ ParseInt(f[6]) = e.t.width
        /\ IsInt(f[7]) /\ ParseInt(f[7]) = e.t.height
        /\ f[8] = <<"1">>
        /\ f[9] = <<"-", "1">> /\ f[10] = <<"-", "1">> /\ f[11] = <<"-", "1">>

RowsRecover(rows, s) ==
    LET exp == Expected(s)
    IN  /\ Len(rows) <= Len(exp)
        /\ \A i \in 1..Len(rows) : RowRecovers(rows[i], exp[i])

\* C3: every row written has exactly eleven comma-separated fields, ending in
\* 1,-1,-1,-1, and its first seven fields read back as the frame index and
\* the label, ID and bounding box of the tracking the tracker returned.
C3_RowRoundTrip ==
    /\ \A s \in SequencePaths : RowsRecover(ArtifactRows(s), s)
    /\ outputStream.open => RowsRecover(StreamRows, outputStream.path)

\* C3 witness: a closed artifact with rows of two frames, one row with a
\* negative coordinate.
C3_Witness ==
    \E s \in SequencePaths :
        /\ pass[s].closed
        /\ \E i, j \in 1..Len(ArtifactRows(s)) :
              /\ KeyOf(ArtifactRows(s)[i]).frameIndex = 0
              /\ KeyOf(ArtifactRows(s)[j]).frameIndex = 1
              /\ Expected(s)[j].t.x1 < 0

\* C4 (as claimed): when the batch is done, the reported duration is the sum of
\* the returned durations, the frame count the sum of the returned frame
\* counts, and the throughput is computed from these two sums.
C4_TotalsAreSums ==
    pc = "done" =>
        LET total == console[Len(console)]
        IN  /\ total.kind = "Total"
            /\ total.ms = ToMs(SumDuration(returned))
            /\ total.frames = SumFrames(returned)
            /\ total.fps = Throughput(SumFrames(returned), ToMs(SumDuration(returned)))

\* C5: the report of a sequence with zero frames or zero milliseconds, and the
\* report of a batch of zero milliseconds, carry a sentinel (not a number) as
\* throughput, and no division error ends the process.
C5_ZeroThroughputIsSentinel ==
    /\ pc # "killed"
    /\ \A i \in 1..Len(console) :
          /\ (console[i].kind = "Duration"
                /\ (console[i].frames = 0 \/ console[i].ms = 0))
             => console[i].fps.kind \in {"nan", "inf"}
          /\ (console[i].kind = "Total" /\ console[i].ms = 0)
             => console[i].fps.kind \in {"nan", "inf"}

\* C5 witness: a run reported a sequence of zero frames, then a sequence with
\* frames in zero milliseconds, and went on to finish the batch.
C5_Witness ==
    /\ pc = "done"
    /\ \E i, j \in 1..Len(console) :
          /\ i < j
          /\ console[i].kind = "Duration" /\ console[i].frames = 0
          /\ console[j].kind = "Duration" /\ console[j].frames > 0
          /\ console[j].ms = 0

\* C6: a sequence without images directory ends the run where it stands: no
\* output directory and no artifact exist for it, no result line is printed
\* for it, and nothing is printed after the line that announced it.
C6_MissingImagesAborts ==
    /\ \A s \in SequencePaths :
          ~imagesDir[s].exists => ~resultsDir[s] /\ ~files[s].exists
    /\ \A i \in 1..Len(console) :
          /\ console[i].kind = "Duration" => imagesDir[console[i].seq].exists
          /\ (console[i].kind = "Sequence" /\ ~imagesDir[console[i].seq].exists)
                => i = Len(console)
    /\ (sequencePath \in SequencePaths /\ ~imagesDir[sequencePath].exists
          /\ pc # "check") => pc = "exited"

\* C6 witness: the run exited on a missing images directory with a later line
\* of the sequences file, naming a sequence that has images, still unread.
C6_Witness ==
    /\ pc = "exited"
    /\ ~imagesDir[sequencePath].exists
    /\ pos < Len(lines)
    /\ imagesDir[lines[pos + 1]].exists

DistinctIDs(trackings) ==
    \A i, j \in 1..Len(trackings) : i # j => trackings[i].ID # trackings[j].ID

NoDuplicateKeys(rows) ==
    LET keys == Keys(rows)
    IN  \A i, j \in 1..Len(keys) : i # j => keys[i] # keys[j]

\* C7 (as claimed): no artifact holds two rows with the same frameIndex and ID,
\* whatever the tracker returned.
C7_OneRowPerFrameAndId ==
    \A s \in SequencePaths : NoDuplicateKeys(ArtifactRows(s))

\* C7 (amended): when the tracker returned pairwise distinct IDs for every
\* frame of a pass, no two rows of that pass share frameIndex and ID.
C7_OneRowPerFrameAndIdOfDistinctIds ==
    \A s \in SequencePaths :
        (\A k \in 1..Len(pass[s].frames) : DistinctIDs(pass[s].frames[k].trackings))
        => /\ NoDuplicateKeys(ArtifactRows(s))
           /\ (outputStream.open /\ outputStream.path = s) => NoDuplicateKeys(StreamRows)

\* C7 witness: a closed artifact whose frames all had distinct IDs and in which
\* one ID has rows in two frames.
C7_Witness ==
    \E s \in SequencePaths :
        /\ pass[s].closed
        /\ \A k \in 1..Len(pass[s].frames) : DistinctIDs(pass[s].frames[k].trackings)
        /\ LET keys == Keys(ArtifactRows(s))
           IN  \E i, j \in 1..Len(keys) :
                  /\ keys[i].ID = keys[j].ID
                  /\ keys[i].frameIndex < keys[j].frameIndex

\* C8: a tracker instance is fed frames of one sequence only, in the order of
\* the sorted images directory; the instance of the running pass was made for
\* it (it has been fed the frames of this pass and nothing else), and a pass
\* that returned has fed it every frame of the sequence.
C8_TrackerPerSequence ==
    /\ \A t \in 1..Len(trackers) : \A i \in 1..Len(trackers[t]) :
          /\ trackers[t][i].seq = trackers[t][1].seq
          /\ Position(trackers[t][i].seq, trackers[t][i].image) = i - 1
    /\ pc = "loop" =>
          /\ imageTracker = Len(trackers)
          /\ Len(trackers[imageTracker]) = imageIt - 1
          /\ \A i \in 1..Len(trackers[imageTracker]) :
                trackers[imageTracker][i].seq = sequencePath
    /\ PassReturned => Len(trackers[imageTracker]) = FrameTotal(sequencePath)

\* C8 witness: one run made two tracker instances and fed each of them the
\* frames of another sequence.
C8_Witness ==
    /\ Len(trackers) = 2
    /\ trackers[1] # <<>> /\ trackers[2] # <<>>
    /\ trackers[1][1].seq # trackers[2][1].seq

\* C9 (as claimed): when the process has ended, the stream it opened for an
\* artifact has been flushed and closed.
C9_StreamClosedAtEnd == Ended => ~outputStream.open

\* The artifact of s holds the rows of all frames of s.
Complete(s) ==
    /\ Len(pass[s].frames) = FrameTotal(s)
    /\ Len(ArtifactRows(s)) = Len(Expected(s))

\* C10 (as claimed): a call is skipped only over an artifact that holds the rows
\* of all frames of its sequence.
C10_SkippedArtifactIsComplete == SkipReturned => Complete(sequencePath)

====
